---- MODULE Spec2Model ----
(***************************************************************************)
(* Model of plotting/reward_vs_dt/extended_make_plot.py: a linear script   *)
(* that reads per-environment CSV files, filters and groups their rows     *)
(* into Statistics, stores them in `systems`, and draws a 4 x 3 figure.    *)
(*                                                                         *)
(* Numbers are exact rationals <<num, den>> (den > 0, reduced); floating   *)
(* point rounding is not modelled.  A standard deviation is kept as the    *)
(* variance it is the square root of.                                      *)
(***************************************************************************)
EXTENDS Integers, Sequences, FiniteSets, TLC

\* ------------------------------------------------------------------ bounds
\* Number of rows of every CSV file.
MaxRows == 3
\* Number of different contents the CSV files of an environment may have.
NumVariants == 4

\* ------------------------------------------------------- program constants
NUM_SAMPLES_PER_SEED == 5
NUM_EVALS == 10

\* --------------------------------------------------------------- rationals
Abs(n) == IF n < 0 THEN -n ELSE n

RECURSIVE GCD(_, _)
GCD(a, b) == IF b = 0 THEN a ELSE GCD(b, a % b)

\* The reduced fraction n / d, for d > 0.
Norm(n, d) == LET g == GCD(Abs(n), d) IN <<n \div g, d \div g>>

Rat(n) == <<n, 1>>
RAdd(a, b) == Norm(a[1] * b[2] + b[1] * a[2], a[2] * b[2])
RSub(a, b) == Norm(a[1] * b[2] - b[1] * a[2], a[2] * b[2])
RMul(a, b) == Norm(a[1] * b[1], a[2] * b[2])
\* a / b for b # 0
RDiv(a, b) == IF b[1] > 0 THEN Norm(a[1] * b[2], a[2] * b[1])
                          ELSE Norm(-(a[1] * b[2]), a[2] * (-b[1]))
RLess(a, b) == a[1] * b[2] < b[1] * a[2]
RLeq(a, b) == a[1] * b[2] <= b[1] * a[2]

RECURSIVE RSum(_)
RSum(s) == IF s = <<>> THEN Rat(0) ELSE RAdd(s[1], RSum(Tail(s)))

\* A column that the data frame does not have.
NoColumn == <<0, 0>>

\* ------------------------------------------------------------ environments
Envs == <<"reacher", "rccar", "halfcheetah">>
Baselines == <<"basline0", "basline1", "basline2", "basline3">>

BASELINE_NAMES(b) ==
    CASE b = "basline0" -> "Switch-Cost-CTRL"
      [] b = "basline1" -> "Same Compute \n Same Real Time \n More \\# measurements"
      [] b = "basline2" -> "More Compute \n Same Real Time \n More \\# measurements"
      [] b = "basline3" -> "Same Compute \n Less Real Time \n Same \\# measurements"

BaselineLabels == {BASELINE_NAMES(Baselines[i]) : i \in 1..Len(Baselines)}

\* {value: key for key, value in BASELINE_NAMES.items()}: a later key with the
\* same value would overwrite an earlier one.
REVERT_BASELINE_NAMES(label) ==
    LET hits == {i \in 1..Len(Baselines) : BASELINE_NAMES(Baselines[i]) = label}
    IN  IF hits = {} THEN "KeyError"
        ELSE Baselines[CHOOSE i \in hits : \A j \in hits : j <= i]

BASE_NUMBER_OF_STEPS(env) ==
    CASE env = "reacher" -> 100000
      [] env = "rccar" -> 50000
      [] env = "halfcheetah" -> 1000000

ENV_NAME_CONVERSION(env) ==
    CASE env = "reacher" -> "Reacher \n [Duration = 2 sec]"
      [] env = "rccar" -> "RC Car \n [Duration = 4 sec]"
      [] env = "halfcheetah" -> "Halfcheetah \n [Duration = 10 sec]"

ENV_NAME_CONVERSION_REVERT(title) ==
    LET hits == {i \in 1..Len(Envs) : ENV_NAME_CONVERSION(Envs[i]) = title}
    IN  IF hits = {} THEN "KeyError"
        ELSE Envs[CHOOSE i \in hits : \A j \in hits : j <= i]

\* get_dt falls off its if-chain (returns None) for any other name.
get_dt(env_name) ==
    CASE env_name = "reacher" -> <<1, 50>>
      [] env_name = "rccar" -> <<1, 2>>
      [] env_name = "halfcheetah" -> <<1, 20>>
      [] OTHER -> NoColumn

\* -------------------------------------------------------------- CSV files
\* A row of a data frame.  The columns of the files:
\*   new_integration_dt, switch_cost, max_time_between_switches,
\*   time_as_part_of_state, same_amount_of_gradient_updates,
\*   results/total_reward, results/num_actions, results/total_steps,
\*   results/total_reward_{i}, results/num_actions_{i}   (i < NUM_EVALS)
\* and the columns the script adds:
\*   results/reward_with_switch_cost, results/reward_with_switch_cost_{i}.
\* Flags are "True", "False" or "NaN" (an empty cell).
EvalRow(dt, r, a, sc, mt, gd) ==
    [new_integration_dt |-> dt,
     total_reward_i |-> [i \in 1..NUM_EVALS |-> Rat(r + (i % 3))],
     num_actions_i |-> [i \in 1..NUM_EVALS |-> Rat(a + (i % 2))],
     total_reward |-> NoColumn, num_actions |-> NoColumn,
     total_steps |-> NoColumn,
     reward_with_switch_cost |-> NoColumn,
     reward_with_switch_cost_i |-> <<>>,
     switch_cost |-> sc, max_time_between_switches |-> mt,
     time_as_part_of_state |-> "NaN",
     same_amount_of_gradient_updates |-> gd]

TotalRow(dt, r, a, steps, sc, mt, tps, gd) ==
    [new_integration_dt |-> dt,
     total_reward_i |-> <<>>, num_actions_i |-> <<>>,
     total_reward |-> Rat(r), num_actions |-> Rat(a),
     total_steps |-> Rat(steps),
     reward_with_switch_cost |-> NoColumn,
     reward_with_switch_cost_i |-> <<>>,
     switch_cost |-> sc, max_time_between_switches |-> mt,
     time_as_part_of_state |-> tps,
     same_amount_of_gradient_updates |-> gd]

\* The files pd.read_csv is called on (lines 177, 184, 190, 261, 267, 274, 315,
\* 317, 376, 432).
Paths ==
    {"data/reacher/switch_cost.csv", "data/reacher/no_switch_cost.csv",
     "data/reacher/naive_model.csv",
     "data/rccar/switch_cost.csv", "data/rccar/no_switch_cost.csv",
     "data/rccar/naive_model.csv",
     "data/halfcheetah/equidistant.csv", "data/halfcheetah/adaptive.csv",
     "data/halfcheetah/no_switch_cost.csv"}

\* Representative rows of each file; a file holds MaxRows consecutive rows of
\* its pool (cyclically), starting at one of NumVariants offsets.  The files of
\* one environment start at the same offset.
Pool(path) ==
    CASE path = "data/reacher/switch_cost.csv" ->
           << EvalRow(<<1, 25>>, 10, 4, <<1, 10>>, <<1, 2>>, "NaN"),
              EvalRow(<<1, 50>>, 8, 6, <<1, 10>>, <<1, 20>>, "NaN"),
              EvalRow(<<1, 25>>, 12, 2, <<2, 1>>, <<1, 2>>, "NaN"),
              EvalRow(<<1, 50>>, 6, 3, <<1, 10>>, <<1, 2>>, "NaN"),
              EvalRow(<<1, 100>>, 5, 9, <<1, 10>>, <<1, 2>>, "NaN") >>
      [] path = "data/reacher/no_switch_cost.csv" ->
           << EvalRow(<<1, 25>>, 9, 50, <<0, 1>>, <<1, 2>>, "True"),
              EvalRow(<<1, 50>>, 11, 100, <<0, 1>>, <<1, 2>>, "False"),
              EvalRow(<<1, 50>>, 7, 100, <<0, 1>>, <<1, 2>>, "True"),
              EvalRow(<<1, 25>>, 13, 50, <<0, 1>>, <<1, 2>>, "NaN"),
              EvalRow(<<1, 100>>, 4, 200, <<0, 1>>, <<1, 2>>, "False") >>
      [] path = "data/reacher/naive_model.csv" ->
           << EvalRow(<<1, 25>>, 3, 50, <<0, 1>>, <<1, 2>>, "NaN"),
              EvalRow(<<1, 25>>, 6, 50, <<0, 1>>, <<1, 2>>, "NaN"),
              EvalRow(<<1, 100>>, 2, 200, <<0, 1>>, <<1, 2>>, "NaN"),
              EvalRow(<<1, 50>>, 5, 100, <<0, 1>>, <<1, 2>>, "NaN"),
              EvalRow(<<1, 50>>, 9, 100, <<0, 1>>, <<1, 2>>, "NaN") >>
      [] path = "data/rccar/switch_cost.csv" ->
           << TotalRow(<<1, 2>>, 20, 5, 8, <<1, 10>>, <<1, 2>>, "NaN", "NaN"),
              TotalRow(<<1, 4>>, 24, 7, 16, <<1, 10>>, <<1, 4>>, "NaN", "NaN"),
              TotalRow(<<1, 4>>, 18, 3, 16, <<1, 10>>, <<1, 2>>, "NaN", "NaN"),
              TotalRow(<<1, 2>>, 30, 4, 8, <<1, 1>>, <<1, 2>>, "NaN", "NaN"),
              TotalRow(<<1, 8>>, 15, 6, 32, <<1, 10>>, <<1, 2>>, "NaN", "NaN") >>
      [] path = "data/rccar/no_switch_cost.csv" ->
           << TotalRow(<<1, 4>>, 21, 16, 16, <<0, 1>>, <<1, 2>>, "NaN", "False"),
              TotalRow(<<1, 2>>, 17, 8, 8, <<0, 1>>, <<1, 2>>, "NaN", "True"),
              TotalRow(<<1, 2>>, 25, 8, 8, <<0, 1>>, <<1, 2>>, "NaN", "False"),
              TotalRow(<<1, 8>>, 19, 32, 32, <<0, 1>>, <<1, 2>>, "NaN", "True"),
              TotalRow(<<1, 4>>, 23, 16, 16, <<0, 1>>, <<1, 2>>, "NaN", "NaN") >>
      [] path = "data/rccar/naive_model.csv" ->
           << EvalRow(<<1, 2>>, 14, 8, <<0, 1>>, <<1, 2>>, "NaN"),
              EvalRow(<<1, 8>>, 10, 32, <<0, 1>>, <<1, 2>>, "NaN"),
              EvalRow(<<1, 4>>, 12, 16, <<0, 1>>, <<1, 2>>, "NaN"),
              EvalRow(<<1, 8>>, 16, 32, <<0, 1>>, <<1, 2>>, "NaN"),
              EvalRow(<<1, 2>>, 11, 8, <<0, 1>>, <<1, 2>>, "NaN") >>
      [] path = "data/halfcheetah/adaptive.csv" ->
           << TotalRow(<<1, 20>>, 40, 9, 200, <<2, 1>>, <<1, 20>>, "True", "NaN"),
              TotalRow(<<1, 20>>, 44, 7, 200, <<2, 1>>, <<1, 20>>, "False", "NaN"),
              TotalRow(<<1, 40>>, 36, 11, 400, <<2, 1>>, <<1, 20>>, "True", "NaN"),
              TotalRow(<<1, 20>>, 50, 5, 200, <<1, 10>>, <<1, 2>>, "True", "NaN"),
              TotalRow(<<1, 40>>, 38, 13, 400, <<2, 1>>, <<1, 2>>, "True", "NaN") >>
      [] path = "data/halfcheetah/no_switch_cost.csv" ->
           << TotalRow(<<1, 20>>, 31, 200, 200, <<0, 1>>, <<1, 20>>, "NaN", "True"),
              TotalRow(<<1, 40>>, 35, 400, 400, <<0, 1>>, <<1, 20>>, "NaN", "False"),
              TotalRow(<<1, 40>>, 29, 400, 400, <<0, 1>>, <<1, 20>>, "NaN", "True"),
              TotalRow(<<1, 20>>, 33, 200, 200, <<0, 1>>, <<1, 20>>, "NaN", "False"),
              TotalRow(<<1, 80>>, 27, 800, 800, <<0, 1>>, <<1, 20>>, "NaN", "NaN") >>
      [] path = "data/halfcheetah/equidistant.csv" ->
           << TotalRow(<<1, 1000>>, 8, 90, 100, <<0, 1>>, <<1, 20>>, "NaN", "NaN"),
              TotalRow(<<1, 1200>>, 6, 95, 120, <<0, 1>>, <<1, 20>>, "NaN", "NaN"),
              TotalRow(<<1, 2000>>, 4, 99, 200, <<0, 1>>, <<1, 20>>, "NaN", "NaN"),
              TotalRow(<<1, 20>>, 30, 18, 20, <<0, 1>>, <<1, 20>>, "NaN", "NaN"),
              TotalRow(<<1, 100>>, 10, 55, 60, <<0, 1>>, <<1, 20>>, "NaN", "NaN") >>

Variant(path, v) ==
    [i \in 1..MaxRows |-> Pool(path)[((v + i - 2) % Len(Pool(path))) + 1]]

\* The section of the script that reads a file.
EnvOf(path) ==
    CASE path \in {"data/reacher/switch_cost.csv", "data/reacher/no_switch_cost.csv",
                   "data/reacher/naive_model.csv"} -> "reacher"
      [] path \in {"data/rccar/switch_cost.csv", "data/rccar/no_switch_cost.csv",
                   "data/rccar/naive_model.csv"} -> "rccar"
      [] OTHER -> "halfcheetah"

EnvSet == {Envs[i] : i \in 1..Len(Envs)}

\* The contents the files on disk may have.
FileSystems ==
    {[p \in Paths |-> Variant(p, off[EnvOf(p)])] : off \in [EnvSet -> 1..NumVariants]}

\* ------------------------------------------------------- pandas operations
\* df[col] of one row
Column(row, col) ==
    CASE col = "results/total_reward" -> row.total_reward
      [] col = "results/num_actions" -> row.num_actions
      [] col = "results/total_steps" -> row.total_steps
      [] col = "results/reward_with_switch_cost" -> row.reward_with_switch_cost

RECURSIVE ColumnValues(_, _)
ColumnValues(rows, col) ==
    IF rows = <<>> THEN <<>>
    ELSE <<Column(rows[1], col)>> \o ColumnValues(Tail(rows), col)

\* Series.mean(): sum / count
Mean(vals) == RDiv(RSum(vals), Rat(Len(vals)))

RECURSIVE SquaredDeviations(_, _)
SquaredDeviations(vals, m) ==
    IF vals = <<>> THEN <<>>
    ELSE LET d == RSub(vals[1], m)
         IN  <<RMul(d, d)>> \o SquaredDeviations(Tail(vals), m)

\* Series.std() (ddof = 1): NaN for a single value, else the square root of var.
Std(vals) ==
    IF Len(vals) < 2 THEN [nan |-> TRUE, var |-> Rat(0)]
    ELSE [nan |-> FALSE,
          var |-> RDiv(RSum(SquaredDeviations(vals, Mean(vals))), Rat(Len(vals) - 1))]

\* Insert a group key into the ascending list of distinct keys.
RECURSIVE InsertKey(_, _)
InsertKey(keys, k) ==
    IF keys = <<>> THEN <<k>>
    ELSE IF keys[1] = k THEN keys
    ELSE IF RLess(k, keys[1]) THEN <<k>> \o keys
    ELSE <<keys[1]>> \o InsertKey(Tail(keys), k)

\* Mutant of GroupKeys: the keys in the order of their first row (sort=False).
RECURSIVE GroupKeysUnsorted(_)
GroupKeysUnsorted(rows) ==
    IF rows = <<>> THEN <<>>
    ELSE LET keys == GroupKeysUnsorted(SubSeq(rows, 1, Len(rows) - 1))
             k == rows[Len(rows)].new_integration_dt
         IN  IF \E i \in 1..Len(keys) : keys[i] = k THEN keys ELSE Append(keys, k)

\* groupby('new_integration_dt') with the default sort=True: the group keys.
RECURSIVE GroupKeys(_)
GroupKeys(rows) ==
    IF rows = <<>> THEN <<>>
    ELSE InsertKey(GroupKeys(SubSeq(rows, 1, Len(rows) - 1)),
                   rows[Len(rows)].new_integration_dt)

GroupOf(rows, k) == SelectSeq(rows, LAMBDA r : r.new_integration_dt = k)

\* cur_data.groupby('new_integration_dt')[col].agg(['mean', 'std']).reset_index()
\* wrapped in Statistics(xs, ys_mean, ys_std, base_number_of_steps).
GroupStatistics(rows, col, base) ==
    LET keys == GroupKeys(rows)
    IN  [xs |-> keys,
         ys_mean |-> [i \in 1..Len(keys) |-> Mean(ColumnValues(GroupOf(rows, keys[i]), col))],
         ys_std |-> [i \in 1..Len(keys) |-> Std(ColumnValues(GroupOf(rows, keys[i]), col))],
         base_number_of_steps |-> base]

\* ------------------------------------------------------------ Python dicts
\* A dict is the sequence of its <<key, value>> items in insertion order.
DictHas(d, k) == \E i \in 1..Len(d) : d[i][1] = k
DictIndex(d, k) == CHOOSE i \in 1..Len(d) : d[i][1] = k
DictGet(d, k) == d[DictIndex(d, k)][2]
\* Mutant of DictSet: the dict holds the new item alone.
DictSetAlone(d, k, v) == << <<k, v>> >>

\* d[k] = v: a new key goes last, an existing key keeps its place.
DictSet(d, k, v) ==
    IF DictHas(d, k) THEN [d EXCEPT ![DictIndex(d, k)] = <<k, v>>]
    ELSE Append(d, <<k, v>>)
DictKeys(d) == [i \in 1..Len(d) |-> d[i][1]]

\* --------------------------------------------------------------- the script
\* The statements of the script in execution order.  op is the kind of
\* statement, env the section it stands in, arg and frame its operands.
St(op, env, arg, frame) == [op |-> op, env |-> env, arg |-> arg, frame |-> frame]

ScriptLines ==
    << St("def", "reacher", "", ""),                                       \* 130-168
       St("new_dicts", "reacher", "", ""),                                 \* 174-175
       St("read_adaptive", "reacher", "data/reacher/switch_cost.csv", ""), \* 177
       St("filter_adaptive", "reacher", "", ""),                           \* 178-182
       St("read_equidistant", "reacher", "data/reacher/no_switch_cost.csv", ""), \* 184-188
       St("read_naive", "reacher", "data/reacher/naive_model.csv", ""),    \* 190-194
       St("split", "reacher", "", ""),                                     \* 196-197
       St("call", "reacher", "basline0", "filtered_df"),                   \* 199-203
       St("call", "reacher", "basline1", "data_same_gd"),                  \* 205-209
       St("call", "reacher", "basline2", "data_more_gd"),                  \* 211-215
       St("call", "reacher", "basline3", "data_equidistant_naive"),        \* 217-221
       St("store", "reacher", "", ""),                                     \* 223
       St("def", "rccar", "", ""),                                         \* 229-255
       St("new_dicts", "rccar", "", ""),                                   \* 258-259
       St("read_adaptive", "rccar", "data/rccar/switch_cost.csv", ""),     \* 261
       St("filter_adaptive", "rccar", "", ""),                             \* 262-265
       St("read_equidistant", "rccar", "data/rccar/no_switch_cost.csv", ""), \* 267-269
       St("split", "rccar", "", ""),                                       \* 271-272
       St("read_naive", "rccar", "data/rccar/naive_model.csv", ""),        \* 274-278
       St("call", "rccar", "basline0", "filtered_df"),                     \* 280-284
       St("call", "rccar", "basline1", "data_same_gd"),                    \* 286-290
       St("call", "rccar", "basline2", "data_more_gd"),                    \* 292-296
       St("call", "rccar", "basline3", "data_naive"),                      \* 298-302
       St("store", "rccar", "", ""),                                       \* 304
       St("rebind", "halfcheetah", "", ""),                                \* 309-310
       St("new_dicts", "halfcheetah", "", ""),                             \* 312-313
       St("read_data", "halfcheetah", "data/halfcheetah/equidistant.csv", ""), \* 315-316
       St("read_adaptive", "halfcheetah", "data/halfcheetah/adaptive.csv", ""), \* 317
       St("filter_adaptive", "halfcheetah", "", ""),                       \* 318-322
       St("inline", "halfcheetah", "basline0", "filtered_df"),             \* 326-345
       St("inline", "halfcheetah", "basline3", "data"),                    \* 350-372
       St("read_flag", "halfcheetah", "data/halfcheetah/no_switch_cost.csv", "False"), \* 376-377
       St("inline", "halfcheetah", "basline2", "data"),                    \* 379-399
       St("def", "halfcheetah", "", ""),                                   \* 402-428
       St("read_flag", "halfcheetah", "data/halfcheetah/no_switch_cost.csv", "True"), \* 432-433
       St("call", "halfcheetah", "basline1", "data"),                      \* 435-440
       St("store", "halfcheetah", "", ""),                                 \* 442
       St("subplots", "", "", ""),                                         \* 447
       St("plot_reward", "", "", ""),                                      \* 449-465
       St("plot_measurements", "", "", ""),                                \* 467-481
       St("plot_gradient_updates", "", "", ""),                            \* 483-495
       St("plot_physical_time", "", "", ""),                               \* 497-511
       St("legend", "", "", ""),                                           \* 513-526
       St("save", "", "", "") >>                                           \* 528-530

\* Mutant of Script: the last call stores under the name of basline2 again.
ScriptRepeatedName == [ScriptLines EXCEPT ![36].arg = "basline2"]

Script == ScriptLines

\* Names of the data frame variables of the script.
Frames == {"data_adaptive", "filtered_df", "data_equidistant",
           "data_equidistant_naive", "data_naive", "data_same_gd",
           "data_more_gd", "data"}

VARIABLES
    pc,                 \* index in Script of the next statement
    error,              \* "" or the exception that ended the script
    fs,                 \* content of every CSV file
    SWITCH_COST, MAX_TIME_BETWEEN_SWITCHES,
    update_baselines,   \* the section whose def of update_baselines is bound
    frames,             \* value of every data frame variable
    heap,               \* the dict objects created so far
    baselines_reward_without_switch_cost,   \* reference into heap
    baselines_reward_with_switch_cost,      \* reference into heap
    systems,            \* dict: title -> reference into heap
    ax,                 \* the grid of subplots
    legend              \* by_label of lines 519-521

vars == <<pc, error, fs, SWITCH_COST, MAX_TIME_BETWEEN_SWITCHES, update_baselines,
          frames, heap, baselines_reward_without_switch_cost,
          baselines_reward_with_switch_cost, systems, ax, legend>>

globals == <<SWITCH_COST, MAX_TIME_BETWEEN_SWITCHES, update_baselines>>
refs == <<baselines_reward_without_switch_cost, baselines_reward_with_switch_cost>>
figure == <<ax, legend>>

\* The state after lines 1-127.
Init ==
    /\ pc = 1
    /\ error = ""
    /\ fs \in FileSystems
    /\ SWITCH_COST = <<1, 10>>
    /\ MAX_TIME_BETWEEN_SWITCHES = <<1, 2>>
    /\ update_baselines = "undefined"
    /\ frames = [f \in Frames |-> <<>>]
    /\ heap = <<>>
    /\ baselines_reward_without_switch_cost = 0
    /\ baselines_reward_with_switch_cost = 0
    /\ systems = <<>>
    /\ ax = <<>>
    /\ legend = <<>>

At(op) == /\ error = ""
          /\ pc \in 1..Len(Script)
          /\ Script[pc].op = op

Cur == Script[pc]

\* def update_baselines(...): binds the name to the definition of this section.
DefUpdateBaselines ==
    /\ At("def")
    /\ update_baselines' = Cur.env
    /\ pc' = pc + 1
    /\ UNCHANGED <<error, fs, SWITCH_COST, MAX_TIME_BETWEEN_SWITCHES, frames, heap,
                   refs, systems, figure>>

\* baselines_reward_without_switch_cost = {}; baselines_reward_with_switch_cost = {}
NewBaselineDicts ==
    /\ At("new_dicts")
    /\ heap' = heap \o << <<>>, <<>> >>
    /\ baselines_reward_without_switch_cost' = Len(heap) + 1
    /\ baselines_reward_with_switch_cost' = Len(heap) + 2
    /\ pc' = pc + 1
    /\ UNCHANGED <<error, fs, globals, frames, systems, figure>>

\* Mutant of RebindSwitchCost: only MAX_TIME_BETWEEN_SWITCHES is rebound.
RebindMaxTimeOnly ==
    /\ At("rebind")
    /\ MAX_TIME_BETWEEN_SWITCHES' = <<1, 20>>
    /\ pc' = pc + 1
    /\ UNCHANGED <<error, fs, SWITCH_COST, update_baselines, frames, heap, refs,
                   systems, figure>>

\* SWITCH_COST = 2; MAX_TIME_BETWEEN_SWITCHES = 0.05
RebindSwitchCost ==
    /\ At("rebind")
    /\ SWITCH_COST' = <<2, 1>>
    /\ MAX_TIME_BETWEEN_SWITCHES' = <<1, 20>>
    /\ pc' = pc + 1
    /\ UNCHANGED <<error, fs, update_baselines, frames, heap, refs, systems, figure>>

\* pd.read_csv(path)
ReadCsv(path) == fs[path]

\* total - SWITCH_COST * count
PenaltyReward(total, sc, count) == RSub(total, RMul(sc, count))

\* df['results/reward_with_switch_cost'] = df['results/total_reward']
\*                                         - SWITCH_COST * df[count column]
AddRewardWithSwitchCost(rows, sc, countCol) ==
    [i \in 1..Len(rows) |->
        [rows[i] EXCEPT !.reward_with_switch_cost =
            PenaltyReward(rows[i].total_reward, sc, Column(rows[i], countCol))]]

\* for index in range(NUM_EVALS): df[f'results/reward_with_switch_cost_{index}'] = ...
AddIndexedRewardWithSwitchCost(rows, sc) ==
    [i \in 1..Len(rows) |->
        [rows[i] EXCEPT !.reward_with_switch_cost_i =
            [k \in 1..NUM_EVALS |->
                PenaltyReward(rows[i].total_reward_i[k], sc, rows[i].num_actions_i[k])]]]

\* data_adaptive = pd.read_csv(...)
ReadAdaptive ==
    /\ At("read_adaptive")
    /\ LET t == ReadCsv(Cur.arg)
       IN  frames' = [frames EXCEPT !["data_adaptive"] = t]
    /\ pc' = pc + 1
    /\ UNCHANGED <<error, fs, globals, heap, refs, systems, figure>>

\* The row condition of filtered_df in each section (lines 178, 262-263, 318-320).
AdaptiveCondition(env, row, sc, mt) ==
    CASE env = "reacher" -> row.switch_cost = sc
      [] env = "rccar" -> /\ row.switch_cost = sc
                          /\ row.max_time_between_switches = mt
      [] env = "halfcheetah" -> /\ row.switch_cost = sc
                                /\ row.max_time_between_switches = mt
                                /\ row.time_as_part_of_state = "True"

\* filtered_df = data_adaptive[...] and the penalised column(s) added to it.
FilterAdaptive ==
    /\ At("filter_adaptive")
    /\ LET kept == SelectSeq(frames["data_adaptive"],
                          LAMBDA r : AdaptiveCondition(Cur.env, r, SWITCH_COST,
                                                       MAX_TIME_BETWEEN_SWITCHES))
       IN  frames' = [frames EXCEPT !["filtered_df"] =
                         IF Cur.env = "reacher"
                         THEN AddIndexedRewardWithSwitchCost(kept, SWITCH_COST)
                         ELSE AddRewardWithSwitchCost(kept, SWITCH_COST, "results/num_actions")]
    /\ pc' = pc + 1
    /\ UNCHANGED <<error, fs, globals, heap, refs, systems, figure>>

\* data_equidistant = pd.read_csv(...) and the penalised column(s) added to it.
ReadEquidistant ==
    /\ At("read_equidistant")
    /\ LET t == ReadCsv(Cur.arg)
       IN  frames' = [frames EXCEPT !["data_equidistant"] =
                           IF Cur.env = "reacher"
                           THEN AddIndexedRewardWithSwitchCost(t, SWITCH_COST)
                           ELSE AddRewardWithSwitchCost(t, SWITCH_COST, "results/num_actions")]
    /\ pc' = pc + 1
    /\ UNCHANGED <<error, fs, globals, heap, refs, systems, figure>>

\* rccar, lines 275-278: the columns of evaluation 0 become the row's totals.
NaiveTotals(rows, sc) ==
    [i \in 1..Len(rows) |->
        [rows[i] EXCEPT !.total_reward = rows[i].total_reward_i[1],
                        !.num_actions = rows[i].num_actions_i[1],
                        !.reward_with_switch_cost =
                            PenaltyReward(rows[i].total_reward_i[1], sc,
                                          rows[i].num_actions_i[1])]]

\* reacher, lines 190-194: data_equidistant_naive is read and the loop after it
\* writes the indexed columns of data_equidistant once more.
\* rccar, lines 274-278: data_naive is read and given its total columns.
ReadNaive ==
    /\ At("read_naive")
    /\ LET t == ReadCsv(Cur.arg)
       IN  frames' =
               IF Cur.env = "reacher"
               THEN [frames EXCEPT
                       !["data_equidistant_naive"] = t,
                       !["data_equidistant"] =
                           AddIndexedRewardWithSwitchCost(frames["data_equidistant"],
                                                          SWITCH_COST)]
               ELSE [frames EXCEPT !["data_naive"] = NaiveTotals(t, SWITCH_COST)]
    /\ pc' = pc + 1
    /\ UNCHANGED <<error, fs, globals, heap, refs, systems, figure>>

\* Mutant of SameGradientUpdates: keeps the rows whose flag is not the other value.
SameGradientUpdatesNegated(rows, flag) ==
    SelectSeq(rows, LAMBDA r : r.same_amount_of_gradient_updates #
                               (IF flag = "True" THEN "False" ELSE "True"))

\* df[df['same_amount_of_gradient_updates'] == flag]
SameGradientUpdates(rows, flag) ==
    SelectSeq(rows, LAMBDA r : r.same_amount_of_gradient_updates = flag)

\* data_same_gd = ...[... == True]; data_more_gd = ...[... == False]
SplitGradientUpdates ==
    /\ At("split")
    /\ frames' = [frames EXCEPT
                    !["data_same_gd"] = SameGradientUpdates(frames["data_equidistant"], "True"),
                    !["data_more_gd"] = SameGradientUpdates(frames["data_equidistant"], "False")]
    /\ pc' = pc + 1
    /\ UNCHANGED <<error, fs, globals, heap, refs, systems, figure>>

\* halfcheetah, lines 315-316: data = read_csv(...); data = data[dt >= 0.05 / 30]
ReadData ==
    /\ At("read_data")
    /\ LET t == ReadCsv(Cur.arg)
       IN  frames' = [frames EXCEPT !["data"] =
                           SelectSeq(t, LAMBDA r : RLeq(<<1, 600>>, r.new_integration_dt))]
    /\ pc' = pc + 1
    /\ UNCHANGED <<error, fs, globals, heap, refs, systems, figure>>

\* halfcheetah, lines 376-377 and 432-433: data = read_csv(...); data = data[flag]
ReadFlag ==
    /\ At("read_flag")
    /\ LET t == ReadCsv(Cur.arg)
       IN  frames' = [frames EXCEPT !["data"] = SameGradientUpdates(t, Cur.frame)]
    /\ pc' = pc + 1
    /\ UNCHANGED <<error, fs, globals, heap, refs, systems, figure>>

\* Lines 135-144, only in the reacher definition of update_baselines: the row's
\* total reward and number of actions are the means of its indexed columns.
RowTotals(def, rows) ==
    IF def = "reacher"
    THEN [i \in 1..Len(rows) |->
            [rows[i] EXCEPT !.total_reward = Mean(rows[i].total_reward_i),
                            !.num_actions = Mean(rows[i].num_actions_i)]]
    ELSE rows

\* Mutant of UpdateBaselinesSteps: every definition keeps the reacher key.
UpdateBaselinesStepsCopied(def) == BASE_NUMBER_OF_STEPS("reacher")

\* base_number_of_steps written in each definition (lines 153/166, 240/253, 413/426)
UpdateBaselinesSteps(def) == BASE_NUMBER_OF_STEPS(def)

\* cur_data after a call of update_baselines
UpdateBaselinesRows(def, rows, sc) ==
    AddRewardWithSwitchCost(RowTotals(def, rows), sc, "results/num_actions")

\* the Statistics stored in cur_baselines_reward_without_switch_cost
UpdateBaselinesWithout(def, rows) ==
    GroupStatistics(RowTotals(def, rows), "results/total_reward",
                    UpdateBaselinesSteps(def))

\* the Statistics stored in cur_baselines_reward_with_switch_cost
UpdateBaselinesWith(def, rows, sc) ==
    GroupStatistics(UpdateBaselinesRows(def, rows, sc),
                    "results/reward_with_switch_cost", UpdateBaselinesSteps(def))

\* Mutant of UpdateBaselinesReturn: the two dicts in the other order.
UpdateBaselinesReturnSwapped(wi, wo) == <<wo, wi>>

\* return cur_baselines_reward_with_switch_cost, cur_baselines_reward_without_switch_cost
\* (lines 168, 255, 428): the two objects passed in, the with dict first.
UpdateBaselinesReturn(wi, wo) == <<wi, wo>>

\* a, b = update_baselines(cur_data=..., baseline_name=BASELINE_NAMES[...], a, b):
\* the definition bound at the time of the call runs, reads the global
\* SWITCH_COST, writes into the two dicts it was given and returns them; the
\* script binds the pair returned to its two variables, the with dict first.
CallUpdateBaselines ==
    /\ At("call")
    /\ update_baselines # "undefined"
    /\ LET rows == frames[Cur.frame]
           name == BASELINE_NAMES(Cur.arg)
           wo == baselines_reward_without_switch_cost
           wi == baselines_reward_with_switch_cost
           h1 == [heap EXCEPT ![wo] =
                     DictSet(@, name, UpdateBaselinesWithout(update_baselines, rows))]
       IN  /\ frames' = [frames EXCEPT ![Cur.frame] =
                            UpdateBaselinesRows(update_baselines, rows, SWITCH_COST)]
           /\ heap' = [h1 EXCEPT ![wi] =
                          DictSet(@, name, UpdateBaselinesWith(update_baselines, rows,
                                                               SWITCH_COST))]
           /\ baselines_reward_with_switch_cost' = UpdateBaselinesReturn(wi, wo)[1]
           /\ baselines_reward_without_switch_cost' = UpdateBaselinesReturn(wi, wo)[2]
    /\ pc' = pc + 1
    /\ UNCHANGED <<error, fs, globals, systems, figure>>

\* The column multiplied by SWITCH_COST in the inline halfcheetah blocks
\* (line 361 for basline3, line 389 for basline2).
InlineCountColumn(b) ==
    CASE b = "basline3" -> "results/total_steps"
      [] b = "basline2" -> "results/num_actions"

\* halfcheetah blocks 326-345 (basline0, from filtered_df, whose penalised column
\* line 321 wrote), 350-372 (basline3) and 379-399 (basline2), both from data.
InlineStatistics ==
    /\ At("inline")
    /\ LET rows == frames[Cur.frame]
           name == BASELINE_NAMES(Cur.arg)
           base == BASE_NUMBER_OF_STEPS("halfcheetah")
           wo == baselines_reward_without_switch_cost
           wi == baselines_reward_with_switch_cost
           after == IF Cur.arg = "basline0" THEN rows
                    ELSE AddRewardWithSwitchCost(rows, SWITCH_COST,
                                                 InlineCountColumn(Cur.arg))
           h1 == [heap EXCEPT ![wo] =
                     DictSet(@, name, GroupStatistics(rows, "results/total_reward", base))]
       IN  /\ frames' = [frames EXCEPT ![Cur.frame] = after]
           /\ heap' = [h1 EXCEPT ![wi] =
                          DictSet(@, name,
                                  GroupStatistics(after, "results/reward_with_switch_cost",
                                                  base))]
    /\ pc' = pc + 1
    /\ UNCHANGED <<error, fs, globals, refs, systems, figure>>

\* Mutant of SystemsTitle: the rccar key is written with another duration.
SystemsTitleOtherDuration(env) ==
    CASE env = "reacher" -> "Reacher \n [Duration = 2 sec]"
      [] env = "rccar" -> "RC Car \n [Duration = 2 sec]"
      [] env = "halfcheetah" -> "Halfcheetah \n [Duration = 10 sec]"

\* The key literals of lines 223, 304 and 442.
SystemsTitle(env) ==
    CASE env = "reacher" -> "Reacher \n [Duration = 2 sec]"
      [] env = "rccar" -> "RC Car \n [Duration = 4 sec]"
      [] env = "halfcheetah" -> "Halfcheetah \n [Duration = 10 sec]"

\* Mutant of StoreSystems: the with-switch-cost dict is stored.
StoreSystemsWithSwitchCost ==
    /\ At("store")
    /\ systems' = DictSet(systems, SystemsTitle(Cur.env),
                          baselines_reward_with_switch_cost)
    /\ pc' = pc + 1
    /\ UNCHANGED <<error, fs, globals, frames, heap, refs, figure>>

\* systems[title] = baselines_reward_without_switch_cost (the dict object itself)
StoreSystems ==
    /\ At("store")
    /\ systems' = DictSet(systems, SystemsTitle(Cur.env),
                          baselines_reward_without_switch_cost)
    /\ pc' = pc + 1
    /\ UNCHANGED <<error, fs, globals, frames, heap, refs, figure>>

\* ---------------------------------------------------------- derived metrics
\* The result of a call: the exception it raised ("" for none) and its value.
Ok(v) == [err |-> "", val |-> v]
Raise(e) == [err |-> e, val |-> <<>>]

BaselineKeys == {Baselines[i] : i \in 1..Len(Baselines)}

\* stats.base_number_of_steps * np.ones_like(stats.xs)
Flat(stats) == [i \in 1..Len(stats.xs) |-> Rat(stats.base_number_of_steps)]

\* Mutant of Scaled: relative to the first xs.
ScaledByFirst(stats) ==
    [i \in 1..Len(stats.xs) |->
        RDiv(Rat(stats.base_number_of_steps), RDiv(stats.xs[i], stats.xs[1]))]

\* stats.base_number_of_steps / (stats.xs / stats.xs[-1])
Scaled(stats) ==
    [i \in 1..Len(stats.xs) |->
        RDiv(Rat(stats.base_number_of_steps),
             RDiv(stats.xs[i], stats.xs[Len(stats.xs)]))]

compute_num_gradient_updates(baseline_name, stats) ==
    IF baseline_name \notin BaselineKeys THEN Raise("AssertionError")
    ELSE IF baseline_name = "basline2"
         THEN IF stats.xs = <<>> THEN Raise("IndexError") ELSE Ok(Scaled(stats))
         ELSE Ok(Flat(stats))

compute_num_measurements(baseline_name, stats) ==
    IF baseline_name \notin BaselineKeys THEN Raise("AssertionError")
    ELSE IF baseline_name \in {"basline1", "basline2"}
         THEN IF stats.xs = <<>> THEN Raise("IndexError") ELSE Ok(Scaled(stats))
         ELSE Ok(Flat(stats))

compute_physcal_time(baseline_name, stats) ==
    IF baseline_name \notin BaselineKeys THEN Raise("AssertionError")
    ELSE IF baseline_name = "basline3"
         THEN IF stats.xs = <<>> THEN Raise("IndexError")
              ELSE Ok([i \in 1..Len(stats.xs) |->
                         RMul(Rat(stats.base_number_of_steps),
                              RDiv(stats.xs[i], stats.xs[Len(stats.xs)]))])
         ELSE Ok(Flat(stats))

LINESTYLES(b) ==
    CASE b = "basline0" -> "solid"
      [] b = "basline1" -> "dashed"
      [] b = "basline2" -> "dotted"
      [] b = "basline3" -> "dashdot"

COLORS(b) ==
    CASE b = "basline0" -> "C0"
      [] b = "basline1" -> "C1"
      [] b = "basline2" -> "C2"
      [] b = "basline3" -> "C3"

\* {BASELINE_NAMES[name]: style for name, style in LINESTYLES.items()}
LINESTYLES_FROM_NAMES(label) == LINESTYLES(REVERT_BASELINE_NAMES(label))
COLORS_FROM_NAMES(label) == COLORS(REVERT_BASELINE_NAMES(label))

\* ------------------------------------------------------------------ figure
NROWS == 4
NCOLS == 3

EmptyAxes == [lines |-> <<>>, fills |-> <<>>, xscale |-> "linear",
              yscale |-> "linear", title |-> "", xlabel |-> "", ylabel |-> ""]

\* fig, ax = plt.subplots(nrows=4, ncols=3, ...)
Subplots ==
    /\ At("subplots")
    /\ ax' = [r \in 1..NROWS |-> [c \in 1..NCOLS |-> EmptyAxes]]
    /\ pc' = pc + 1
    /\ UNCHANGED <<error, fs, globals, frames, heap, refs, systems, legend>>

\* Mutant of Frequency: the time step itself.
FrequencyAsPeriod(xs) == xs

\* 1 / baseline_stat.xs
Frequency(xs) == [i \in 1..Len(xs) |-> RDiv(Rat(1), xs[i])]

\* The y values of the curve drawn in a row of the figure (rows 0..3).
YValues(row, title, baseline_name, baseline_stat) ==
    CASE row = 0 -> Ok(baseline_stat.ys_mean)
      [] row = 1 ->
           IF REVERT_BASELINE_NAMES(baseline_name) = "KeyError" THEN Raise("KeyError")
           ELSE compute_num_measurements(REVERT_BASELINE_NAMES(baseline_name), baseline_stat)
      [] row = 2 ->
           IF REVERT_BASELINE_NAMES(baseline_name) = "KeyError" THEN Raise("KeyError")
           ELSE compute_num_gradient_updates(REVERT_BASELINE_NAMES(baseline_name), baseline_stat)
      [] row = 3 ->
           IF \/ REVERT_BASELINE_NAMES(baseline_name) = "KeyError"
              \/ ENV_NAME_CONVERSION_REVERT(title) = "KeyError"
           THEN Raise("KeyError")
           ELSE LET t == compute_physcal_time(REVERT_BASELINE_NAMES(baseline_name),
                                              baseline_stat)
                    dt == get_dt(ENV_NAME_CONVERSION_REVERT(title))
                IN  IF t.err # "" THEN t
                    ELSE IF dt = NoColumn THEN Raise("TypeError")
                    ELSE Ok([i \in 1..Len(t.val) |-> RMul(t.val[i], dt)])

\* ax[row, index].plot(1 / xs, y, label=baseline_name, ...), and in row 0 the
\* fill_between of ys_mean -/+ ys_std / sqrt(NUM_SAMPLES_PER_SEED).
AddCurve(axes, row, baseline_name, baseline_stat, y) ==
    [axes EXCEPT
       !.lines = Append(@, [label |-> baseline_name,
                            x |-> Frequency(baseline_stat.xs),
                            y |-> y,
                            linestyle |-> LINESTYLES_FROM_NAMES(baseline_name),
                            color |-> COLORS_FROM_NAMES(baseline_name)]),
       !.fills = IF row = 0
                 THEN Append(@, [x |-> Frequency(baseline_stat.xs),
                                 mean |-> baseline_stat.ys_mean,
                                 std |-> baseline_stat.ys_std,
                                 samples |-> NUM_SAMPLES_PER_SEED,
                                 color |-> COLORS_FROM_NAMES(baseline_name)])
                 ELSE @]

\* The inner loop `for baseline_name, baseline_stat in baselines.items()` from
\* its k-th item on: the axes and the exception that ended it, if any.
RECURSIVE DrawBaselines(_, _, _, _, _)
DrawBaselines(axes, row, title, baselines, k) ==
    IF k > Len(baselines) THEN [err |-> "", axes |-> axes]
    ELSE LET y == YValues(row, title, baselines[k][1], baselines[k][2])
         IN  IF y.err # "" THEN [err |-> y.err, axes |-> axes]
             ELSE DrawBaselines(AddCurve(axes, row, baselines[k][1], baselines[k][2], y.val),
                                row, title, baselines, k + 1)

\* The calls after the inner loop: set_xscale, set_yscale, title and labels.
Decorate(axes, row, index, title) ==
    [axes EXCEPT
       !.xscale = "log",
       !.yscale = IF row = 0 THEN @ ELSE "log",
       !.title = IF row = 0 THEN title ELSE @,
       !.xlabel = IF row = 3 THEN "Frequency" ELSE @,
       !.ylabel = IF index # 0 THEN @
                  ELSE CASE row = 0 -> "Reward [Without $c(\\vx, \\vu, t)$]"
                         [] row = 1 -> "\\# Samples"
                         [] row = 2 -> "Computation"
                         [] row = 3 -> "Physical Time [sec]"]

\* `for index, (title, baselines) in enumerate(systems.items())` from index on.
RECURSIVE DrawRow(_, _, _)
DrawRow(grid, row, index) ==
    IF index >= Len(systems) THEN [err |-> "", grid |-> grid]
    ELSE IF index >= NCOLS THEN [err |-> "IndexError", grid |-> grid]
    ELSE LET title == systems[index + 1][1]
             drawn == DrawBaselines(grid[row + 1][index + 1], row, title,
                                    heap[systems[index + 1][2]], 1)
         IN  IF drawn.err # ""
             THEN [err |-> drawn.err,
                   grid |-> [grid EXCEPT ![row + 1][index + 1] = drawn.axes]]
             ELSE DrawRow([grid EXCEPT ![row + 1][index + 1] =
                              Decorate(drawn.axes, row, index, title)],
                          row, index + 1)

PlotLoop(op, row) ==
    /\ At(op)
    /\ LET r == DrawRow(ax, row, 0)
       IN  /\ ax' = r.grid
           /\ error' = r.err
           /\ pc' = IF r.err = "" THEN pc + 1 ELSE pc
    /\ UNCHANGED <<fs, globals, frames, heap, refs, systems, legend>>

PlotReward == PlotLoop("plot_reward", 0)
PlotMeasurements == PlotLoop("plot_measurements", 1)
PlotGradientUpdates == PlotLoop("plot_gradient_updates", 2)
PlotPhysicalTime == PlotLoop("plot_physical_time", 3)

\* Lines 513-518: the handles and labels of every subplot, row by row.  A
\* handle is <<row, column, position of the line in its subplot>>.
RECURSIVE LegendItems(_, _, _)
LegendItems(grid, r, c) ==
    IF r > Len(grid) THEN <<>>
    ELSE IF c > Len(grid[r]) THEN LegendItems(grid, r + 1, 1)
    ELSE [k \in 1..Len(grid[r][c].lines) |-> <<grid[r][c].lines[k].label, <<r, c, k>> >>]
         \o LegendItems(grid, r, c + 1)

\* Mutant of ByLabel: every label with its handle, repeated labels included.
ByLabelAll(items) == items

\* by_label = dict(zip(labels, handles)): the labels in the order in which they
\* first occur, each with the handle of its last occurrence.
ByLabel(items) ==
    LET firsts == {i \in 1..Len(items) : \A j \in 1..(i - 1) : items[j][1] # items[i][1]}
        nth(k) == CHOOSE i \in firsts : Cardinality({j \in firsts : j < i}) = k - 1
        last(label) == CHOOSE i \in 1..Len(items) :
                          /\ items[i][1] = label
                          /\ \A j \in (i + 1)..Len(items) : items[j][1] # label
    IN  [k \in 1..Cardinality(firsts) |->
            <<items[nth(k)][1], items[last(items[nth(k)][1])][2]>>]

\* fig.legend(by_label.values(), by_label.keys(), ...)
Legend ==
    /\ At("legend")
    /\ legend' = ByLabel(LegendItems(ax, 1, 1))
    /\ pc' = pc + 1
    /\ UNCHANGED <<error, fs, globals, frames, heap, refs, systems, ax>>

\* fig.tight_layout(); plt.savefig(...); plt.show()
Save ==
    /\ At("save")
    /\ pc' = pc + 1
    /\ UNCHANGED <<error, fs, globals, frames, heap, refs, systems, figure>>

Next ==
    \/ DefUpdateBaselines
    \/ NewBaselineDicts
    \/ RebindSwitchCost
    \/ ReadAdaptive
    \/ FilterAdaptive
    \/ ReadEquidistant
    \/ ReadNaive
    \/ SplitGradientUpdates
    \/ ReadData
    \/ ReadFlag
    \/ CallUpdateBaselines
    \/ InlineStatistics
    \/ StoreSystems
    \/ Subplots
    \/ PlotReward
    \/ PlotMeasurements
    \/ PlotGradientUpdates
    \/ PlotPhysicalTime
    \/ Legend
    \/ Save

Spec == Init /\ [][Next]_vars

Done == error = "" /\ pc = Len(Script) + 1

\* ================================================================ properties
\* What the properties below compare the script's state with is stated here
\* on the files themselves, by sets of row indices and sums over them.

EnvIndex(env) == CHOOSE e \in 1..Len(Envs) : Envs[e] = env

\* The dicts created by the section of an environment (<<>> before that).
WithoutDict(env) ==
    IF Len(heap) >= 2 * EnvIndex(env) - 1 THEN heap[2 * EnvIndex(env) - 1] ELSE <<>>
WithDict(env) ==
    IF Len(heap) >= 2 * EnvIndex(env) THEN heap[2 * EnvIndex(env)] ELSE <<>>

\* The values in force in each section of the script.
SwitchCostOf(env) == IF env = "halfcheetah" THEN <<2, 1>> ELSE <<1, 10>>
MaxTimeOf(env) == IF env = "halfcheetah" THEN <<1, 20>> ELSE <<1, 2>>

\* The file a baseline of an environment is computed from.
SourcePath(env, b) ==
    CASE b = "basline0" ->
           (CASE env = "reacher" -> "data/reacher/switch_cost.csv"
              [] env = "rccar" -> "data/rccar/switch_cost.csv"
              [] env = "halfcheetah" -> "data/halfcheetah/adaptive.csv")
      [] b \in {"basline1", "basline2"} ->
           (CASE env = "reacher" -> "data/reacher/no_switch_cost.csv"
              [] env = "rccar" -> "data/rccar/no_switch_cost.csv"
              [] env = "halfcheetah" -> "data/halfcheetah/no_switch_cost.csv")
      [] b = "basline3" ->
           (CASE env = "reacher" -> "data/reacher/naive_model.csv"
              [] env = "rccar" -> "data/rccar/naive_model.csv"
              [] env = "halfcheetah" -> "data/halfcheetah/equidistant.csv")

RECURSIVE SumOver(_, _)
SumOver(S, val) ==
    IF S = {} THEN Rat(0)
    ELSE LET i == CHOOSE j \in S : TRUE
         IN  RAdd(val[i], SumOver(S \ {i}, val))

Average(S, val) == RDiv(SumOver(S, val), Rat(Cardinality(S)))

\* A row's total reward and number of actions, as the section defines them.
RowReward(env, b, row) ==
    IF env = "reacher" THEN Average(1..NUM_EVALS, row.total_reward_i)
    ELSE IF env = "rccar" /\ b = "basline3" THEN row.total_reward_i[1]
    ELSE row.total_reward
RowActions(env, b, row) ==
    IF env = "reacher" THEN Average(1..NUM_EVALS, row.num_actions_i)
    ELSE IF env = "rccar" /\ b = "basline3" THEN row.num_actions_i[1]
    ELSE row.num_actions

\* The adaptive rows each section keeps.
KeptAdaptive(env, row) ==
    /\ row.switch_cost = SwitchCostOf(env)
    /\ env # "reacher" => row.max_time_between_switches = MaxTimeOf(env)
    /\ env = "halfcheetah" => row.time_as_part_of_state = "True"

\* The adaptive rows with all conditions applied in every section.
ClaimedAdaptive(env, row) ==
    /\ row.switch_cost = SwitchCostOf(env)
    /\ row.max_time_between_switches = MaxTimeOf(env)
    /\ env = "halfcheetah" => row.time_as_part_of_state = "True"

\* The rows of its file (by index) a baseline is aggregated from; `claimed`
\* selects the adaptive rows by ClaimedAdaptive instead of KeptAdaptive.
RowsUsed(env, b, claimed) ==
    LET rows == fs[SourcePath(env, b)]
    IN  CASE b = "basline0" ->
               {i \in 1..Len(rows) : IF claimed THEN ClaimedAdaptive(env, rows[i])
                                                ELSE KeptAdaptive(env, rows[i])}
          [] b = "basline1" ->
               {i \in 1..Len(rows) : rows[i].same_amount_of_gradient_updates = "True"}
          [] b = "basline2" ->
               {i \in 1..Len(rows) : rows[i].same_amount_of_gradient_updates = "False"}
          [] b = "basline3" ->
               IF env = "halfcheetah"
               THEN {i \in 1..Len(rows) : RLeq(<<1, 600>>, rows[i].new_integration_dt)}
               ELSE 1..Len(rows)

\* xs lists the members of the set S of numbers, each once, in ascending order.
Ascending(xs, S) ==
    /\ Len(xs) = Cardinality(S)
    /\ \A i \in 1..Len(xs) : xs[i] \in S
    /\ \A i \in 1..Len(xs) : \A j \in 1..Len(xs) : i < j => RLess(xs[i], xs[j])

\* stat groups the rows I of `rows` by new_integration_dt and holds, per group,
\* the mean of val over the rows of the group.
Aggregates(stat, rows, I, val) ==
    /\ Ascending(stat.xs, {rows[i].new_integration_dt : i \in I})
    /\ Len(stat.ys_mean) = Len(stat.xs)
    /\ Len(stat.ys_std) = Len(stat.xs)
    /\ \A k \in 1..Len(stat.xs) :
          stat.ys_mean[k] =
              Average({i \in I : rows[i].new_integration_dt = stat.xs[k]}, val)

\* The statement of the script that has just been executed.
JustRan(op) == /\ error = ""
               /\ pc > 1
               /\ Script[pc - 1].op = op
Prev == Script[pc - 1]

\* ---------------------------------------------------------------------- C1
\* C1: in every environment and for every baseline, the with-switch-cost
\* statistic is the aggregate of the row's total reward minus the section's
\* SWITCH_COST times the row's number of actions ('results/num_actions').
PenalisedByActions(env, b) ==
    LET rows == fs[SourcePath(env, b)]
        I == RowsUsed(env, b, FALSE)
    IN  Aggregates(DictGet(WithDict(env), BASELINE_NAMES(b)), rows, I,
                   [i \in 1..Len(rows) |->
                       RSub(RowReward(env, b, rows[i]),
                            RMul(SwitchCostOf(env), RowActions(env, b, rows[i])))])

C1_PenaltyIsNumActions ==
    \A env \in EnvSet : \A b \in BaselineKeys :
        DictHas(WithDict(env), BASELINE_NAMES(b)) => PenalisedByActions(env, b)

\* ---------------------------------------------------------------------- C2
\* C2: in every environment basline0 is aggregated only from the adaptive rows
\* whose switch_cost and max_time_between_switches equal the values in force
\* (and, for halfcheetah, whose time_as_part_of_state is true).
C2_AdaptiveRowsFiltered ==
    \A env \in EnvSet :
        DictHas(WithoutDict(env), BASELINE_NAMES("basline0")) =>
            LET rows == fs[SourcePath(env, "basline0")]
            IN  Aggregates(DictGet(WithoutDict(env), BASELINE_NAMES("basline0")), rows,
                           RowsUsed(env, "basline0", TRUE),
                           [i \in 1..Len(rows) |-> RowReward(env, "basline0", rows[i])])

\* ---------------------------------------------------------------------- C3
\* C3: every Statistics produced by a call of update_baselines or by an inline
\* block has as xs the distinct new_integration_dt of the rows it was given,
\* each once and ascending, as ys_mean[i] the mean of the aggregated column
\* over exactly the rows with that new_integration_dt, and xs, ys_mean and
\* ys_std of equal length.
C3_StatisticsGroupRows ==
    (JustRan("call") \/ JustRan("inline")) =>
        LET rows == frames[Prev.frame]
            name == BASELINE_NAMES(Prev.arg)
            wo == heap[baselines_reward_without_switch_cost]
            wi == heap[baselines_reward_with_switch_cost]
        IN  /\ DictHas(wo, name)
            /\ DictHas(wi, name)
            /\ Aggregates(DictGet(wo, name), rows, 1..Len(rows),
                          [i \in 1..Len(rows) |-> rows[i].total_reward])
            /\ Aggregates(DictGet(wi, name), rows, 1..Len(rows),
                          [i \in 1..Len(rows) |-> rows[i].reward_with_switch_cost])

\* A call was given rows that are not in ascending order of new_integration_dt
\* and two of which share it.
C3_Witness ==
    /\ JustRan("call")
    /\ LET rows == frames[Prev.frame]
       IN  /\ \E i, j \in 1..Len(rows) :
                 i < j /\ RLess(rows[j].new_integration_dt, rows[i].new_integration_dt)
           /\ \E i, j \in 1..Len(rows) :
                 i < j /\ rows[i].new_integration_dt = rows[j].new_integration_dt

\* ---------------------------------------------------------------------- C4
\* C4: in every environment basline1 is aggregated from exactly the rows of
\* no_switch_cost.csv whose same_amount_of_gradient_updates is True and
\* basline2 from exactly those where it is False; the two frames split off
\* data_equidistant share no row and together hold every row with a boolean flag.
C4_GradientUpdateSplit ==
    /\ \A env \in EnvSet : \A b \in {"basline1", "basline2"} :
          DictHas(WithoutDict(env), BASELINE_NAMES(b)) =>
              LET rows == fs[SourcePath(env, b)]
                  flag == IF b = "basline1" THEN "True" ELSE "False"
              IN  Aggregates(DictGet(WithoutDict(env), BASELINE_NAMES(b)), rows,
                             {i \in 1..Len(rows) :
                                 rows[i].same_amount_of_gradient_updates = flag},
                             [i \in 1..Len(rows) |-> RowReward(env, b, rows[i])])
    /\ JustRan("split") =>
          LET all == frames["data_equidistant"]
              same == frames["data_same_gd"]
              more == frames["data_more_gd"]
          IN  /\ \A i \in 1..Len(same) : same[i].same_amount_of_gradient_updates = "True"
              /\ \A i \in 1..Len(more) : more[i].same_amount_of_gradient_updates = "False"
              /\ Len(same) + Len(more) =
                    Cardinality({i \in 1..Len(all) :
                        all[i].same_amount_of_gradient_updates \in {"True", "False"}})

\* Both baselines of an environment are stored, from a file that has rows with
\* the flag True, False and missing.
C4_Witness ==
    \E env \in EnvSet :
        LET rows == fs[SourcePath(env, "basline1")]
        IN  /\ DictHas(WithoutDict(env), BASELINE_NAMES("basline1"))
            /\ DictHas(WithoutDict(env), BASELINE_NAMES("basline2"))
            /\ \A f \in {"True", "False", "NaN"} :
                  \E i \in 1..Len(rows) : rows[i].same_amount_of_gradient_updates = f

\* ---------------------------------------------------------------------- C5
FirstIndex(op) ==
    CHOOSE i \in 1..Len(Script) :
        /\ Script[i].op = op
        /\ \A j \in 1..(i - 1) : Script[j].op # op

PlottingStarted == pc >= FirstIndex("subplots")

\* C5: when plotting starts, systems holds exactly the three entries reacher,
\* rccar, halfcheetah, in this order, and each maps exactly the four baseline
\* display names to a Statistics computed from that environment's own files.
C5_SystemsComplete ==
    PlottingStarted =>
        /\ DictKeys(systems) = [e \in 1..Len(Envs) |-> SystemsTitle(Envs[e])]
        /\ \A e \in 1..Len(Envs) :
              LET d == heap[systems[e][2]]
              IN  /\ Len(d) = Len(Baselines)
                  /\ {d[k][1] : k \in 1..Len(d)} = BaselineLabels
                  /\ \A b \in BaselineKeys :
                        LET rows == fs[SourcePath(Envs[e], b)]
                        IN  Aggregates(DictGet(d, BASELINE_NAMES(b)), rows,
                                       RowsUsed(Envs[e], b, FALSE),
                                       [i \in 1..Len(rows) |->
                                           RowReward(Envs[e], b, rows[i])])

\* Plotting is about to start with three environments stored.
C5_Witness ==
    /\ error = ""
    /\ pc = FirstIndex("subplots")
    /\ Len(systems) = 3

\* ---------------------------------------------------------------------- C6
KeyOfLabel(label) == CHOOSE b \in BaselineKeys : BASELINE_NAMES(b) = label

\* The quantity a row of the figure shows for one baseline of one environment.
RowQuantity(row, env, label, stat) ==
    CASE row = 0 -> stat.ys_mean
      [] row = 1 -> compute_num_measurements(KeyOfLabel(label), stat).val
      [] row = 2 -> compute_num_gradient_updates(KeyOfLabel(label), stat).val
      [] row = 3 ->
           LET t == compute_physcal_time(KeyOfLabel(label), stat).val
           IN  [i \in 1..Len(t) |-> RMul(t[i], get_dt(env))]

Plotted == error = "" /\ pc > FirstIndex("plot_physical_time")

\* C6: the figure is a grid of four rows by three columns; row 0 shows reward,
\* row 1 sample count, row 2 compute, row 3 physical time; column i shows the
\* i-th environment of systems; every curve has x = 1 / xs; the x axis of each
\* of the twelve subplots is log scaled.
C6_FigureGrid ==
    Plotted =>
        /\ Len(ax) = 4
        /\ \A r \in 1..Len(ax) : Len(ax[r]) = 3
        /\ \A r \in 1..Len(ax) : \A c \in 1..Len(ax[r]) :
              LET d == heap[systems[c][2]]
                  lines == ax[r][c].lines
              IN  /\ ax[r][c].xscale = "log"
                  /\ Len(lines) = Len(d)
                  /\ \A k \in 1..Len(lines) :
                        /\ lines[k].label = d[k][1]
                        /\ Len(lines[k].x) = Len(d[k][2].xs)
                        /\ \A i \in 1..Len(lines[k].x) :
                              RMul(lines[k].x[i], d[k][2].xs[i]) = Rat(1)
                        /\ lines[k].y = RowQuantity(r - 1, Envs[c], d[k][1], d[k][2])

\* The figure is complete and some curve has at least two points.
C6_Witness ==
    /\ Plotted
    /\ \E r \in 1..Len(ax) : \E c \in 1..Len(ax[r]) :
          \E k \in 1..Len(ax[r][c].lines) : Len(ax[r][c].lines[k].x) >= 2

\* ---------------------------------------------------------------------- C7
LegendDrawn == error = "" /\ pc > FirstIndex("legend")

\* C7: the shared legend has exactly one entry per baseline label, four in
\* all, in the order basline0, basline1, basline2, basline3, whatever the
\* insertion order of the halfcheetah mapping.
C7_LegendEntries ==
    LegendDrawn =>
        DictKeys(legend) = [i \in 1..Len(Baselines) |-> BASELINE_NAMES(Baselines[i])]

\* The legend is drawn from twelve subplots of four labelled curves each, and
\* the halfcheetah mapping lists the baselines in another order.
C7_Witness ==
    /\ LegendDrawn
    /\ \A r \in 1..Len(ax) : \A c \in 1..Len(ax[r]) : Len(ax[r][c].lines) = 4
    /\ DictKeys(heap[systems[3][2]]) # DictKeys(legend)

\* ---------------------------------------------------------------------- C8
\* Every Statistics held by a dict of the script.
AllStatistics ==
    UNION {{heap[h][k][2] : k \in 1..Len(heap[h])} : h \in 1..Len(heap)}

PositiveAscending(xs) ==
    /\ xs # <<>>
    /\ \A i \in 1..Len(xs) : RLess(Rat(0), xs[i])
    /\ \A i \in 1..Len(xs) : \A j \in 1..Len(xs) : i < j => RLess(xs[i], xs[j])

IsLargest(xs, i) == \A j \in 1..Len(xs) : RLeq(xs[j], xs[i])

\* C8: for a Statistics with positive ascending xs the derived metrics agree
\* with the legend text: basline0 has measurements, gradient updates and
\* physical time equal to base_number_of_steps; basline1 has gradient updates
\* and physical time equal to it and measurements >= it; basline2 has physical
\* time equal to it and measurements and gradient updates >= it; basline3 has
\* measurements and gradient updates equal to it and physical time <= it; each
\* inequality is an equality exactly at the largest xs.
C8_MetricsMatchLegend ==
    \A s \in AllStatistics :
        PositiveAscending(s.xs) =>
            LET base == Rat(s.base_number_of_steps)
                M(b) == compute_num_measurements(b, s)
                G(b) == compute_num_gradient_updates(b, s)
                P(b) == compute_physcal_time(b, s)
                Same(r) == /\ r.err = ""
                           /\ Len(r.val) = Len(s.xs)
                           /\ \A i \in 1..Len(r.val) : r.val[i] = base
                More(r) == /\ r.err = ""
                           /\ Len(r.val) = Len(s.xs)
                           /\ \A i \in 1..Len(r.val) :
                                 /\ RLeq(base, r.val[i])
                                 /\ r.val[i] = base <=> IsLargest(s.xs, i)
                Less(r) == /\ r.err = ""
                           /\ Len(r.val) = Len(s.xs)
                           /\ \A i \in 1..Len(r.val) :
                                 /\ RLeq(r.val[i], base)
                                 /\ r.val[i] = base <=> IsLargest(s.xs, i)
            IN  /\ Same(M("basline0")) /\ Same(G("basline0")) /\ Same(P("basline0"))
                /\ More(M("basline1")) /\ Same(G("basline1")) /\ Same(P("basline1"))
                /\ More(M("basline2")) /\ More(G("basline2")) /\ Same(P("basline2"))
                /\ Same(M("basline3")) /\ Same(G("basline3")) /\ Less(P("basline3"))

\* A Statistics with three different xs is held.
C8_Witness ==
    \E s \in AllStatistics : PositiveAscending(s.xs) /\ Len(s.xs) >= 3

\* ---------------------------------------------------------------------- C9
EnvOfTitle(title) == CHOOSE env \in EnvSet : SystemsTitle(env) = title

\* C9: every Statistics stored under systems for an environment carries the
\* BASE_NUMBER_OF_STEPS of that environment, at any later point of the script
\* too; every call of update_baselines runs the definition of the section the
\* call stands in.
C9_BaseNumberOfSteps ==
    /\ \A e \in 1..Len(systems) :
          LET d == heap[systems[e][2]]
          IN  /\ d # <<>>
              /\ \A k \in 1..Len(d) :
                    d[k][2].base_number_of_steps =
                        BASE_NUMBER_OF_STEPS(EnvOfTitle(systems[e][1]))
    /\ At("call") => update_baselines = Cur.env

\* All three environments are stored, each with four Statistics.
C9_Witness ==
    /\ Len(systems) = 3
    /\ \A e \in 1..Len(systems) : Len(heap[systems[e][2]]) = 4

\* --------------------------------------------------------------------- C10
\* The column the penalty factor multiplies in the code of each baseline.
PenaltyCount(env, b, row) ==
    IF env = "halfcheetah" /\ b = "basline3" THEN row.total_steps
    ELSE RowActions(env, b, row)

\* C10: within one environment the switch-cost value that filters the adaptive
\* rows and the one that is the penalty factor of every with-switch-cost
\* statistic are the same, 0.1 for reacher and rccar and 2 for halfcheetah;
\* this stays so for the statistics of reacher and rccar after SWITCH_COST is
\* rebound.
C10_SwitchCostPerSection ==
    /\ \A env \in EnvSet : \A b \in BaselineKeys :
          DictHas(WithDict(env), BASELINE_NAMES(b)) =>
              LET rows == fs[SourcePath(env, b)]
              IN  Aggregates(DictGet(WithDict(env), BASELINE_NAMES(b)), rows,
                             RowsUsed(env, b, FALSE),
                             [i \in 1..Len(rows) |->
                                 RSub(RowReward(env, b, rows[i]),
                                      RMul(SwitchCostOf(env),
                                           PenaltyCount(env, b, rows[i])))])
    /\ JustRan("filter_adaptive") =>
          \A i \in 1..Len(frames["filtered_df"]) :
              frames["filtered_df"][i].switch_cost = SwitchCostOf(Prev.env)

\* SWITCH_COST has been rebound, the halfcheetah statistics are computed from
\* adaptive rows that passed the filter, and those of reacher are still held.
C10_Witness ==
    /\ SWITCH_COST = <<2, 1>>
    /\ Len(WithDict("halfcheetah")) = 4
    /\ DictGet(WithDict("halfcheetah"), BASELINE_NAMES("basline0")).xs # <<>>
    /\ Len(WithDict("reacher")) = 4

\* --------------------------------------------------------------------- C11
\* The dict objects bound to baselines_reward_with_switch_cost at some point
\* of the script: the second of each pair created by a new_dicts statement.
WithReferences == {h \in 1..Len(heap) : h % 2 = 0}

RewardPlotted == error = "" /\ pc > FirstIndex("plot_reward")

\* C11: every value of systems is the object that was bound to
\* baselines_reward_without_switch_cost in the section of its title, never one
\* bound to baselines_reward_with_switch_cost; every curve and band of every
\* subplot is computed from the Statistics of that object; and the curves of
\* row 0 are, per new_integration_dt, the mean of the unpenalised total reward
\* of the rows the baseline is computed from.
C11_RewardRowUnpenalised ==
    /\ \A e \in 1..Len(systems) :
          /\ systems[e][2] \notin WithReferences
          /\ systems[e][2] = 2 * EnvIndex(EnvOfTitle(systems[e][1])) - 1
    /\ JustRan("store") =>
          systems[Len(systems)][2] = baselines_reward_without_switch_cost
    /\ \A r \in 1..Len(ax) : \A c \in 1..Len(ax[r]) :
          LET d == WithoutDict(Envs[c])
              lines == ax[r][c].lines
              fills == ax[r][c].fills
          IN  /\ Len(lines) <= Len(d)
              /\ \A k \in 1..Len(lines) :
                    /\ lines[k].label = d[k][1]
                    /\ lines[k].y = RowQuantity(r - 1, Envs[c], d[k][1], d[k][2])
              /\ \A k \in 1..Len(fills) :
                    /\ fills[k].mean = d[k][2].ys_mean
                    /\ fills[k].std = d[k][2].ys_std
    /\ RewardPlotted =>
          \A c \in 1..NCOLS : \A b \in BaselineKeys :
              LET rows == fs[SourcePath(Envs[c], b)]
                  lines == ax[1][c].lines
              IN  \E k \in 1..Len(lines) :
                     /\ lines[k].label = BASELINE_NAMES(b)
                     /\ Aggregates([xs |-> DictGet(WithoutDict(Envs[c]),
                                                   BASELINE_NAMES(b)).xs,
                                    ys_mean |-> lines[k].y,
                                    ys_std |-> lines[k].y],
                                   rows, RowsUsed(Envs[c], b, FALSE),
                                   [i \in 1..Len(rows) |->
                                       RowReward(Envs[c], b, rows[i])])

\* The reward row is drawn, and in every environment some baseline has a
\* penalised mean that differs from the unpenalised mean drawn.
C11_Witness ==
    /\ RewardPlotted
    /\ \A c \in 1..NCOLS :
          /\ Len(ax[1][c].lines) = 4
          /\ \E b \in BaselineKeys :
                /\ DictGet(WithDict(Envs[c]), BASELINE_NAMES(b)).ys_mean # <<>>
                /\ DictGet(WithDict(Envs[c]), BASELINE_NAMES(b)).ys_mean
                      # DictGet(WithoutDict(Envs[c]), BASELINE_NAMES(b)).ys_mean

\* --------------------------------------------------------------------- C12
\* The exceptions a failed reverse lookup, a failed assertion on the baseline
\* name or a product with None would end the script with.
LookupErrors == {"KeyError", "AssertionError", "TypeError"}

\* C12: REVERT_BASELINE_NAMES[BASELINE_NAMES[k]] == k for every key k of
\* BASELINE_NAMES; every key of systems is a key of ENV_NAME_CONVERSION_REVERT
\* and get_dt returns a number for the name it maps to; every key of a dict of
\* systems is a key of REVERT_BASELINE_NAMES; and the script never ends with a
\* KeyError, an AssertionError or a TypeError.
C12_ReverseLookupsTotal ==
    /\ \A k \in BaselineKeys : REVERT_BASELINE_NAMES(BASELINE_NAMES(k)) = k
    /\ \A e \in 1..Len(systems) :
          /\ ENV_NAME_CONVERSION_REVERT(systems[e][1]) \in EnvSet
          /\ ENV_NAME_CONVERSION(ENV_NAME_CONVERSION_REVERT(systems[e][1]))
                = systems[e][1]
          /\ get_dt(ENV_NAME_CONVERSION_REVERT(systems[e][1])) # NoColumn
          /\ \A k \in 1..Len(heap[systems[e][2]]) :
                REVERT_BASELINE_NAMES(heap[systems[e][2]][k][1]) \in BaselineKeys
    /\ error \notin LookupErrors

\* The physical-time loop, which makes all three lookups, has run to its end
\* over three environments of four baselines each.
C12_Witness ==
    /\ JustRan("plot_physical_time")
    /\ Len(systems) = 3
    /\ \A c \in 1..NCOLS : Len(ax[4][c].lines) = 4

\* --------------------------------------------------------------------- C13
\* d2 is d with the entry `name` set and nothing else changed: every other
\* item keeps its place and its value, and a new key is added at the end.
OnlyEntrySet(d, d2, name) ==
    /\ DictHas(d2, name)
    /\ Len(d2) = Len(d) + (IF DictHas(d, name) THEN 0 ELSE 1)
    /\ \A k \in 1..Len(d) : d[k][1] # name => d2[k] = d[k]

\* What a step from a call statement changes.
CallFrame ==
    At("call") =>
        LET name == BASELINE_NAMES(Cur.arg)
            wo == baselines_reward_without_switch_cost
            wi == baselines_reward_with_switch_cost
        IN  /\ baselines_reward_without_switch_cost' = wo
            /\ baselines_reward_with_switch_cost' = wi
            /\ Len(heap') = Len(heap)
            /\ \A h \in 1..Len(heap) : h \notin {wo, wi} => heap'[h] = heap[h]
            /\ OnlyEntrySet(heap[wo], heap'[wo], name)
            /\ OnlyEntrySet(heap[wi], heap'[wi], name)
            /\ systems' = systems

\* After the last call of a section both dicts hold the four baselines.
AllBaselinesKept ==
    (JustRan("call") /\ pc <= Len(Script) /\ Script[pc].op = "store") =>
        /\ Len(heap[baselines_reward_without_switch_cost]) = Len(Baselines)
        /\ Len(heap[baselines_reward_with_switch_cost]) = Len(Baselines)
        /\ \A b \in BaselineKeys :
              /\ DictHas(heap[baselines_reward_without_switch_cost], BASELINE_NAMES(b))
              /\ DictHas(heap[baselines_reward_with_switch_cost], BASELINE_NAMES(b))

\* C13: a call of update_baselines sets only the entry baseline_name in the
\* with and in the without dict it is given and changes no other entry of
\* them, no other dict and no entry of systems; the variables
\* baselines_reward_with_switch_cost and baselines_reward_without_switch_cost
\* are bound to the same objects after the call as before; so after the last
\* call of a section both dicts hold all four baselines.
C13_CallSetsOneEntry == [][CallFrame]_vars /\ []AllBaselinesKept

\* The last call of a section has run on dicts that held three baselines with
\* data before it.
C13_Witness ==
    /\ JustRan("call")
    /\ Script[pc].op = "store"
    /\ Len(heap[baselines_reward_without_switch_cost]) = 4
    /\ \A k \in 1..4 : heap[baselines_reward_without_switch_cost][k][2].xs # <<>>

====
